---- MODULE Spec2Model ----
(***************************************************************************)
(* Model of src/user.rs: the `User` struct (login identity plus the cached *)
(* user-info document), its mutators set_from_login / load_user_info and   *)
(* its queries.  JSON documents (serde_json::Value) are modelled as tagged *)
(* records, Option<T> and Result<T,E> as records with a discriminant.      *)
(***************************************************************************)
EXTENDS Integers, Sequences, FiniteSets, TLC

\* ---------------------------------------------------------------- bounds
\* Largest number of calls to the API client in one behaviour.
MaxApiCalls == 2
\* Longest `rights` array in a user-info document.
MaxRightsLen == 2

\* ------------------------------------------------- Option<T>, Result<T,E>
None == [some |-> FALSE]
Some(x) == [some |-> TRUE, v |-> x]
Ok(x) == [ok |-> TRUE, v |-> x]
Err(e) == [ok |-> FALSE, err |-> e]
\* the unit value ()
Unit == "()"

unwrap_or(opt, d) == IF opt.some THEN opt.v ELSE d

\* ------------------------------------------------------ serde_json::Value
JNull == [t |-> "null"]
JStr(s) == [t |-> "str", s |-> s]
\* a non-negative integer (serde_json N::PosInt)
JU64(n) == [t |-> "num", k |-> "u64", n |-> n]
\* a negative integer (serde_json N::NegInt)
JI64(n) == [t |-> "num", k |-> "i64", n |-> n]
JArr(a) == [t |-> "arr", a |-> a]
JObj(o) == [t |-> "obj", o |-> o]
EmptyMap == [k \in {} |-> JNull]

\* value["key"]: the member of an object, Null for a missing key or a
\* value that is not an object
Index(v, key) == IF v.t = "obj" /\ key \in DOMAIN v.o THEN v.o[key] ELSE JNull

as_str(v) == IF v.t = "str" THEN Some(v.s) ELSE None

as_u64(v) == IF v.t = "num" /\ v.k = "u64" THEN Some(v.n) ELSE None

as_array(v) == IF v.t = "arr" THEN Some(v.a) ELSE None

\* Value == &str: true only for a String value with the same content
ValueEqStr(v, s) == v.t = "str" /\ v.s = s

\* ------------------------------------------------------------ the inputs
UserNames == {"alice", "bob"}
UserIds == {1, 2}
ResultVals == {JStr("Success"), JStr("success")}
NameVals == {JStr(n) : n \in UserNames} \cup {JU64(7)}
IdVals == {JU64(i) : i \in UserIds} \cup {JI64(-1)}

\* an object with the members of `keys`, the value of each taken from f
ObjOf(keys, f) == JObj([k \in keys |-> f[k]])

LoginKeys == {"result", "lgusername", "lguserid"}
LoginDocs ==
    {JNull} \cup
    { ObjOf(ks, [k \in LoginKeys |->
                   IF k = "result" THEN r ELSE IF k = "lgusername" THEN n ELSE i])
        : ks \in SUBSET LoginKeys, r \in ResultVals, n \in NameVals, i \in IdVals }

RightsElems == {JStr("edit"), JStr(""), JU64(42)}
RECURSIVE SeqsUpTo(_, _)
SeqsUpTo(S, n) ==
    IF n = 0 THEN {<<>>}
    ELSE LET shorter == SeqsUpTo(S, n - 1)
         IN shorter \cup {Append(q, e) : q \in {p \in shorter : Len(p) = n - 1}, e \in S}

WithUserinfo(ui) == JObj("query" :> JObj("userinfo" :> ui))
WithRights(r) == WithUserinfo(JObj("rights" :> r))
RightsArrays == {JArr(a) : a \in SeqsUpTo(RightsElems, MaxRightsLen)}
\* the right names of is_bot .. can_patrol
ConvenienceRights ==
    {"bot", "autoconfirmed", "edit", "createpage", "upload", "move", "patrol"}
UserInfoDocs ==
    {JNull, JObj("query" :> JStr("userinfo")), WithUserinfo(JObj(EmptyMap)),
     WithRights(JStr("edit"))}
    \cup {WithRights(r) : r \in RightsArrays}
    \cup {WithRights(JArr(<<JStr(r)>>)) : r \in ConvenienceRights}

ApiErrors == {"timeout", "badtoken"}
ApiOutcomes == {Ok(d) : d \in UserInfoDocs} \cup {Err(e) : e \in ApiErrors}

RightNames == {"edit", "Edit", "", "bot"}

\* --------------------------------------------------------------- the User
VARIABLES
    lgusername,    \* Option<String>
    lguserid,      \* Option<u64>
    is_logged_in,  \* bool
    user_info,     \* Option<Value>
    api_log,       \* the requests the API client has received, in order
    pre,           \* the User as it was before the last operation
    last           \* the last operation: its name, argument, the requests it
                   \* sent, the API client's answer and the value returned

vars == <<lgusername, lguserid, is_logged_in, user_info, api_log, pre, last>>

\* the User as one value
Self == [lgusername |-> lgusername, lguserid |-> lguserid,
         is_logged_in |-> is_logged_in, user_info |-> user_info]

\* User::new() that starts logged in
new_LoggedIn == [lgusername |-> None, lguserid |-> None,
                 is_logged_in |-> TRUE, user_info |-> None]

\* User::new()
new == [lgusername |-> None, lguserid |-> None,
        is_logged_in |-> FALSE, user_info |-> None]

logged_in(self) == self.is_logged_in

\* the number of elements of the sequence a that satisfy x.as_str().unwrap_or("") == right
RECURSIVE CountMatching(_, _)
CountMatching(a, right) ==
    IF a = <<>> THEN 0
    ELSE (IF unwrap_or(as_str(Head(a)), "") = right THEN 1 ELSE 0)
         + CountMatching(Tail(a), right)

\* has_right with "not loaded" reported as "right not granted"
has_right_FalseWhenUnloaded(self, right) ==
    IF self.user_info.some
    THEN LET ui == self.user_info.v
             rights == Index(Index(Index(ui, "query"), "userinfo"), "rights")
         IN Some(CountMatching(unwrap_or(as_array(rights), <<>>), right) > 0)
    ELSE Some(FALSE)

has_right(self, right) ==
    IF self.user_info.some
    THEN LET ui == self.user_info.v
             rights == Index(Index(Index(ui, "query"), "userinfo"), "rights")
         IN Some(CountMatching(unwrap_or(as_array(rights), <<>>), right) > 0)
    ELSE None

is_bot(self) == has_right(self, "bot")
is_autoconfirmed(self) == has_right(self, "autoconfirmed")
can_edit(self) == has_right(self, "edit")
can_create_page(self) == has_right(self, "createpage")
can_upload(self) == has_right(self, "upload")
\* can_move that asks for the right of can_patrol
can_move_AsksPatrol(self) == has_right(self, "patrol")
can_move(self) == has_right(self, "move")
can_patrol(self) == has_right(self, "patrol")

user_name(self) == self.lgusername
user_id(self) == self.lguserid

\* the request load_user_info sends
UiProp == "blockinfo|groups|groupmemberships|implicitgroups|rights|options|ratelimits|realname|registrationdate|unreadcount|centralids|hasmsg"
\* the parameters with "rights" left out of uiprop
UserInfoParams_NoRights ==
    [action |-> "query", meta |-> "userinfo",
     uiprop |-> "blockinfo|groups|groupmemberships|implicitgroups|options|ratelimits|realname|registrationdate|unreadcount|centralids|hasmsg"]
UserInfoParams == [action |-> "query", meta |-> "userinfo", uiprop |-> UiProp]
UserInfoRequest == [params |-> UserInfoParams, method |-> "GET"]

\* load_user_info(&mut self, api): `outcome` is what api.query_api_json
\* returns if it is called.  Yields the User afterwards, the requests
\* issued and the result.
RefetchAlways(self, outcome) ==
    IF outcome.ok
    THEN [self |-> [self EXCEPT !.user_info = Some(outcome.v)],
          calls |-> <<UserInfoRequest>>, ret |-> Ok(Unit)]
    ELSE [self |-> self, calls |-> <<UserInfoRequest>>, ret |-> Err(outcome.err)]

\* load_user_info without the cache check
load_user_info_Refetch(self, outcome) == RefetchAlways(self, outcome)

\* load_user_info that stores a Null document when the API call fails
load_user_info_StoreOnError(self, outcome) ==
    IF self.user_info.some
    THEN [self |-> self, calls |-> <<>>, ret |-> Ok(Unit)]
    ELSE IF outcome.ok
         THEN [self |-> [self EXCEPT !.user_info = Some(outcome.v)],
               calls |-> <<UserInfoRequest>>, ret |-> Ok(Unit)]
         ELSE [self |-> [self EXCEPT !.user_info = Some(JNull)],
               calls |-> <<UserInfoRequest>>, ret |-> Err(outcome.err)]

load_user_info(self, outcome) ==
    IF self.user_info.some
    THEN [self |-> self, calls |-> <<>>, ret |-> Ok(Unit)]
    ELSE IF outcome.ok
         THEN [self |-> [self EXCEPT !.user_info = Some(outcome.v)],
               calls |-> <<UserInfoRequest>>, ret |-> Ok(Unit)]
         ELSE [self |-> self, calls |-> <<UserInfoRequest>>, ret |-> Err(outcome.err)]

\* set_from_login that forgets to store lguserid
set_from_login_NoUserId(self, login) ==
    IF ValueEqStr(Index(login, "result"), "Success")
    THEN LET s == as_str(Index(login, "lgusername")) IN
         IF ~s.some
         THEN [self |-> self, calls |-> <<>>, ret |-> Err("No lgusername in login result")]
         ELSE LET self1 == [self EXCEPT !.lgusername = Some(s.v)]
                  u == as_u64(Index(login, "lguserid")) IN
              IF ~u.some
              THEN [self |-> self1, calls |-> <<>>, ret |-> Err("No lguserid in login result")]
              ELSE [self |-> [self1 EXCEPT !.is_logged_in = TRUE],
                    calls |-> <<>>, ret |-> Ok(Unit)]
    ELSE [self |-> [self EXCEPT !.is_logged_in = FALSE], calls |-> <<>>, ret |-> Ok(Unit)]

\* set_from_login that clears the identity on a result other than "Success"
set_from_login_ClearOnFail(self, login) ==
    IF ValueEqStr(Index(login, "result"), "Success")
    THEN LET s == as_str(Index(login, "lgusername")) IN
         IF ~s.some
         THEN [self |-> self, calls |-> <<>>, ret |-> Err("No lgusername in login result")]
         ELSE LET self1 == [self EXCEPT !.lgusername = Some(s.v)]
                  u == as_u64(Index(login, "lguserid")) IN
              IF ~u.some
              THEN [self |-> self1, calls |-> <<>>, ret |-> Err("No lguserid in login result")]
              ELSE [self |-> [self1 EXCEPT !.lguserid = Some(u.v), !.is_logged_in = TRUE],
                    calls |-> <<>>, ret |-> Ok(Unit)]
    ELSE [self |-> [self EXCEPT !.is_logged_in = FALSE, !.lgusername = None, !.lguserid = None],
          calls |-> <<>>, ret |-> Ok(Unit)]

\* set_from_login that raises the flag before it reads the identity fields
set_from_login_EagerFlag(self, login) ==
    IF ValueEqStr(Index(login, "result"), "Success")
    THEN LET self0 == [self EXCEPT !.is_logged_in = TRUE]
             s == as_str(Index(login, "lgusername")) IN
         IF ~s.some
         THEN [self |-> self0, calls |-> <<>>, ret |-> Err("No lgusername in login result")]
         ELSE LET self1 == [self0 EXCEPT !.lgusername = Some(s.v)]
                  u == as_u64(Index(login, "lguserid")) IN
              IF ~u.some
              THEN [self |-> self1, calls |-> <<>>, ret |-> Err("No lguserid in login result")]
              ELSE [self |-> [self1 EXCEPT !.lguserid = Some(u.v)],
                    calls |-> <<>>, ret |-> Ok(Unit)]
    ELSE [self |-> [self EXCEPT !.is_logged_in = FALSE], calls |-> <<>>, ret |-> Ok(Unit)]

\* set_from_login that drops the cached user_info on a new login
set_from_login_DropsUserInfo(self, login) ==
    IF ValueEqStr(Index(login, "result"), "Success")
    THEN LET s == as_str(Index(login, "lgusername")) IN
         IF ~s.some
         THEN [self |-> self, calls |-> <<>>, ret |-> Err("No lgusername in login result")]
         ELSE LET self1 == [self EXCEPT !.lgusername = Some(s.v)]
                  u == as_u64(Index(login, "lguserid")) IN
              IF ~u.some
              THEN [self |-> self1, calls |-> <<>>, ret |-> Err("No lguserid in login result")]
              ELSE [self |-> [self1 EXCEPT !.lguserid = Some(u.v), !.is_logged_in = TRUE,
                                           !.user_info = None],
                    calls |-> <<>>, ret |-> Ok(Unit)]
    ELSE [self |-> [self EXCEPT !.is_logged_in = FALSE], calls |-> <<>>, ret |-> Ok(Unit)]

\* set_from_login that reads lguserid before lgusername
set_from_login_IdFirst(self, login) ==
    IF ValueEqStr(Index(login, "result"), "Success")
    THEN LET u == as_u64(Index(login, "lguserid")) IN
         IF ~u.some
         THEN [self |-> self, calls |-> <<>>, ret |-> Err("No lguserid in login result")]
         ELSE LET self1 == [self EXCEPT !.lguserid = Some(u.v)]
                  s == as_str(Index(login, "lgusername")) IN
              IF ~s.some
              THEN [self |-> self1, calls |-> <<>>, ret |-> Err("No lgusername in login result")]
              ELSE [self |-> [self1 EXCEPT !.lgusername = Some(s.v), !.is_logged_in = TRUE],
                    calls |-> <<>>, ret |-> Ok(Unit)]
    ELSE [self |-> [self EXCEPT !.is_logged_in = FALSE], calls |-> <<>>, ret |-> Ok(Unit)]

\* set_from_login(&mut self, login): the User afterwards and the result
set_from_login(self, login) ==
    IF ValueEqStr(Index(login, "result"), "Success")
    THEN LET s == as_str(Index(login, "lgusername")) IN
         IF ~s.some
         THEN [self |-> self, calls |-> <<>>, ret |-> Err("No lgusername in login result")]
         ELSE LET self1 == [self EXCEPT !.lgusername = Some(s.v)]
                  u == as_u64(Index(login, "lguserid")) IN
              IF ~u.some
              THEN [self |-> self1, calls |-> <<>>, ret |-> Err("No lguserid in login result")]
              ELSE [self |-> [self1 EXCEPT !.lguserid = Some(u.v), !.is_logged_in = TRUE],
                    calls |-> <<>>, ret |-> Ok(Unit)]
    ELSE [self |-> [self EXCEPT !.is_logged_in = FALSE], calls |-> <<>>, ret |-> Ok(Unit)]

\* ------------------------------------------------------------ the machine
NoArg == JNull

Init ==
    /\ lgusername = new.lgusername
    /\ lguserid = new.lguserid
    /\ is_logged_in = new.is_logged_in
    /\ user_info = new.user_info
    /\ api_log = <<>>
    /\ pre = new
    /\ last = [op |-> "new", arg |-> NoArg, api |-> None, calls |-> <<>>, ret |-> Ok(Unit)]

\* a &mut self operation: r is the record the operation yields, api the
\* answer of the API client to the call the operation made, if it made one
Mutate(op, arg, api, r) ==
    /\ Len(api_log) + Len(r.calls) <= MaxApiCalls
    /\ lgusername' = r.self.lgusername
    /\ lguserid' = r.self.lguserid
    /\ is_logged_in' = r.self.is_logged_in
    /\ user_info' = r.self.user_info
    /\ api_log' = api_log \o r.calls
    /\ pre' = Self
    /\ last' = [op |-> op, arg |-> arg, api |-> api, calls |-> r.calls, ret |-> r.ret]

\* a &self operation: it only yields a value
Query(op, arg, ret) ==
    /\ pre' = Self
    /\ last' = [op |-> op, arg |-> arg, api |-> None, calls |-> <<>>, ret |-> ret]
    /\ UNCHANGED <<lgusername, lguserid, is_logged_in, user_info, api_log>>

SetFromLogin == \E login \in LoginDocs : Mutate("set_from_login", login, None, set_from_login(Self, login))

LoadUserInfo ==
    \E outcome \in ApiOutcomes :
        LET r == load_user_info(Self, outcome)
        IN Mutate("load_user_info", NoArg, IF r.calls = <<>> THEN None ELSE Some(outcome), r)

LoggedIn == Query("logged_in", NoArg, Some(logged_in(Self)))
UserName == Query("user_name", NoArg, user_name(Self))
UserId == Query("user_id", NoArg, user_id(Self))
HasRight == \E right \in RightNames : Query("has_right", JStr(right), has_right(Self, right))
IsBot == Query("is_bot", NoArg, is_bot(Self))
IsAutoconfirmed == Query("is_autoconfirmed", NoArg, is_autoconfirmed(Self))
CanEdit == Query("can_edit", NoArg, can_edit(Self))
CanCreatePage == Query("can_create_page", NoArg, can_create_page(Self))
CanUpload == Query("can_upload", NoArg, can_upload(Self))
CanMove == Query("can_move", NoArg, can_move(Self))
CanPatrol == Query("can_patrol", NoArg, can_patrol(Self))

Next ==
    \/ SetFromLogin
    \/ LoadUserInfo
    \/ LoggedIn
    \/ UserName
    \/ UserId
    \/ HasRight
    \/ IsBot
    \/ IsAutoconfirmed
    \/ CanEdit
    \/ CanCreatePage
    \/ CanUpload
    \/ CanMove
    \/ CanPatrol

Spec == Init /\ [][Next]_vars

TypeOK ==
    /\ is_logged_in \in BOOLEAN
    /\ Len(api_log) <= MaxApiCalls

\* ------------------------------------------------- reading a login document
\* the document has a member `key`
HasKey(doc, key) == doc.t = "obj" /\ key \in DOMAIN doc.o
\* the document's `result` is the string "Success"
ResultIsSuccess(doc) == HasKey(doc, "result") /\ doc.o["result"] = JStr("Success")
\* the document's lgusername is present and a string
NameIsString(doc) == HasKey(doc, "lgusername") /\ doc.o["lgusername"].t = "str"
\* the document's lguserid is present and an unsigned integer
IdIsUnsigned(doc) ==
    /\ HasKey(doc, "lguserid")
    /\ doc.o["lguserid"].t = "num"
    /\ doc.o["lguserid"].k \in {"u64", "i64"}
    /\ doc.o["lguserid"].n >= 0

LastIs(op) == last.op = op

\* ------------------------------------------------------------------- C1
\* C1: after set_from_login with a document whose result is "Success" but
\* whose lgusername is missing or not a string, or whose lguserid is missing
\* or not an unsigned integer, the call has returned an error and the whole
\* User (lgusername, lguserid, is_logged_in, user_info) is as before the call.
C1_RejectedLoginLeavesUserUnchanged ==
    (/\ LastIs("set_from_login")
     /\ ResultIsSuccess(last.arg)
     /\ (~NameIsString(last.arg) \/ ~IdIsUnsigned(last.arg)))
    => (~last.ret.ok /\ Self = pre)

\* ------------------------------------------------------------------- C2
\* C2: once user_info is present, no operation changes it or calls the API
\* client, and load_user_info returns Ok(()).
C2_UserInfoCachedOnce ==
    pre.user_info.some =>
        /\ user_info = pre.user_info
        /\ last.calls = <<>>
        /\ last.api = None
        /\ (LastIs("load_user_info") => last.ret = Ok(Unit))

\* two load_user_info calls in a row against a succeeding API client: the
\* second one found the document of the first and one request was sent
C2_Witness ==
    /\ LastIs("load_user_info")
    /\ pre.user_info.some
    /\ Len(api_log) = 1
    /\ last.ret = Ok(Unit)

\* ------------------------------------------------------------------- C3
\* C3: load_user_info with user_info absent sends one request; when the API
\* client fails it returns that error and leaves the whole User as it was
\* (user_info still absent); when the API client succeeds, also after
\* earlier failures, its document becomes user_info.
C3_FailedLoadIsRetryable ==
    (LastIs("load_user_info") /\ ~pre.user_info.some) =>
        /\ last.calls = <<UserInfoRequest>>
        /\ last.api.some
        /\ (~last.api.v.ok =>
                /\ last.ret = Err(last.api.v.err)
                /\ ~user_info.some
                /\ Self = pre)
        /\ (last.api.v.ok =>
                /\ last.ret = Ok(Unit)
                /\ user_info = Some(last.api.v.v))

\* a load that succeeded after an earlier one had failed
C3_Witness ==
    /\ LastIs("load_user_info")
    /\ ~pre.user_info.some
    /\ user_info.some
    /\ Len(api_log) = 2

\* a load that has just failed
C3_WitnessFailed ==
    /\ LastIs("load_user_info")
    /\ ~last.ret.ok
    /\ ~user_info.some

\* ------------------------------------------------------------------- C4
\* C4: after set_from_login with a document whose result is "Success", whose
\* lgusername is a string and whose lguserid is an unsigned integer, from any
\* prior User: the call returned Ok(()), logged_in() is true, user_name() is
\* the supplied lgusername and user_id() the supplied lguserid.
C4_ValidLoginSetsIdentity ==
    (/\ LastIs("set_from_login")
     /\ ResultIsSuccess(last.arg)
     /\ NameIsString(last.arg)
     /\ IdIsUnsigned(last.arg))
    => /\ last.ret = Ok(Unit)
       /\ logged_in(Self) = TRUE
       /\ user_name(Self) = Some(last.arg.o["lgusername"].s)
       /\ user_id(Self) = Some(last.arg.o["lguserid"].n)

\* a valid login applied to a User already logged in as somebody else
C4_Witness ==
    /\ LastIs("set_from_login")
    /\ ResultIsSuccess(last.arg) /\ NameIsString(last.arg) /\ IdIsUnsigned(last.arg)
    /\ pre.is_logged_in
    /\ pre.lgusername # lgusername
    /\ pre.lguserid # lguserid

\* ------------------------------------------------------------------- C5
\* C5: after set_from_login with a document whose result is not "Success"
\* (or that has no result), from any prior User: the call returned Ok(()),
\* logged_in() is false and lgusername and lguserid are as before the call.
C5_OtherResultKeepsIdentity ==
    (LastIs("set_from_login") /\ ~ResultIsSuccess(last.arg))
    => /\ last.ret = Ok(Unit)
       /\ logged_in(Self) = FALSE
       /\ lgusername = pre.lgusername
       /\ lguserid = pre.lguserid

\* a document without "Success" that carries another identity, applied to a
\* logged-in User
C5_Witness ==
    /\ LastIs("set_from_login")
    /\ ~ResultIsSuccess(last.arg)
    /\ NameIsString(last.arg) /\ IdIsUnsigned(last.arg)
    /\ pre.is_logged_in
    /\ pre.lgusername # Some(last.arg.o["lgusername"].s)
    /\ pre.lguserid # Some(last.arg.o["lguserid"].n)

\* ------------------------------------------------------------------- C6
\* C6: in every reachable state lgusername and lguserid are both present or
\* both absent.
C6_IdentityFieldsPaired == lgusername.some = lguserid.some

\* ------------------------------------------------------------------- C7
\* C7: in every reachable state, is_logged_in implies that lgusername and
\* lguserid are both present.
C7_LoggedInHasIdentity == is_logged_in => (lgusername.some /\ lguserid.some)

\* a logged-in User on which a "Success" document without a usable lguserid
\* has just been rejected
C7_Witness ==
    /\ is_logged_in
    /\ LastIs("set_from_login")
    /\ ~last.ret.ok
    /\ NameIsString(last.arg)

\* ------------------------------------------------------------------- C8
\* C8: in every reachable state where user_info is absent, has_right(x) is
\* None (unknown), never Some(false), for every right name x; and a
\* has_right call made in such a state returned None.
C8_RightsUnknownUntilLoaded ==
    /\ ~user_info.some => \A x \in RightNames : has_right(Self, x) = None
    /\ (LastIs("has_right") /\ ~pre.user_info.some) => last.ret = None

\* has_right asked of a User with an identity whose load_user_info has failed
C8_Witness ==
    /\ LastIs("has_right")
    /\ ~user_info.some
    /\ lgusername.some
    /\ Len(api_log) >= 1

\* ------------------------------------------------------------------- C9
\* the string elements of the sequence at query.userinfo.rights of a
\* document; none when the path is missing or is not a sequence
GrantedRights(doc) ==
    IF /\ HasKey(doc, "query")
       /\ HasKey(doc.o["query"], "userinfo")
       /\ HasKey(doc.o["query"].o["userinfo"], "rights")
       /\ doc.o["query"].o["userinfo"].o["rights"].t = "arr"
    THEN LET a == doc.o["query"].o["userinfo"].o["rights"].a
         IN {a[i].s : i \in {j \in DOMAIN a : a[j].t = "str"}}
    ELSE {}

\* C9: when user_info is present, has_right(x) is Some(true) exactly when x
\* equals, as an exact string, some string element of the sequence at
\* query.userinfo.rights, and Some(false) otherwise, for every document and
\* every right name x, the empty string included.
C9_HasRightIsMembership ==
    user_info.some =>
        \A x \in RightNames : has_right(Self, x) = Some(x \in GrantedRights(user_info.v))

\* ------------------------------------------------------------------ C10
\* C10: in every reachable state, logged_in() = false implies that
\* user_name() and user_id() are None.
C10_NoIdentityUnlessLoggedIn ==
    ~logged_in(Self) => (user_name(Self) = None /\ user_id(Self) = None)

\* ------------------------------------------------------------------ C11
\* C11: a freshly constructed User has logged_in() = false, user_name()
\* None, user_id() None and user_info absent.
C11_NewUserIsBlank ==
    LastIs("new") =>
        /\ logged_in(Self) = FALSE
        /\ user_name(Self) = None
        /\ user_id(Self) = None
        /\ ~user_info.some

\* the User right after User::new(), before any call
C11_Witness == LastIs("new") /\ api_log = <<>>

\* ------------------------------------------------------------------ C12
\* the right name each convenience query stands for
RightOf ==
    [is_bot |-> "bot", is_autoconfirmed |-> "autoconfirmed", can_edit |-> "edit",
     can_create_page |-> "createpage", can_upload |-> "upload",
     can_move |-> "move", can_patrol |-> "patrol"]

\* C12: in every state, with user_info absent or present with any document,
\* each convenience query yields the three-valued result of has_right on its
\* fixed right name (is_bot "bot", is_autoconfirmed "autoconfirmed", can_edit
\* "edit", can_create_page "createpage", can_upload "upload", can_move
\* "move", can_patrol "patrol"), and a call of it returned that result.
C12_ConvenienceQueriesAreHasRight ==
    /\ is_bot(Self) = has_right(Self, "bot")
    /\ is_autoconfirmed(Self) = has_right(Self, "autoconfirmed")
    /\ can_edit(Self) = has_right(Self, "edit")
    /\ can_create_page(Self) = has_right(Self, "createpage")
    /\ can_upload(Self) = has_right(Self, "upload")
    /\ can_move(Self) = has_right(Self, "move")
    /\ can_patrol(Self) = has_right(Self, "patrol")
    /\ last.op \in DOMAIN RightOf => last.ret = has_right(pre, RightOf[last.op])

\* can_move answered true on a document that grants "move" and nothing else
C12_Witness ==
    /\ LastIs("can_move")
    /\ last.ret = Some(TRUE)
    /\ can_patrol(Self) = Some(FALSE)

\* a convenience query answered unknown because nothing is loaded
C12_WitnessUnknown == LastIs("is_bot") /\ last.ret = None

\* ------------------------------------------------------------------ C13
\* the request the interface fixes for the user-info lookup
ExpectedRequest ==
    [method |-> "GET",
     params |-> [action |-> "query", meta |-> "userinfo",
                 uiprop |-> "blockinfo|groups|groupmemberships|implicitgroups|rights|options|ratelimits|realname|registrationdate|unreadcount|centralids|hasmsg"]]

\* C13: every load_user_info call made while user_info is absent sends
\* exactly one request, with method "GET" and exactly the parameters action,
\* meta and uiprop with their fixed values; on success the response document
\* is stored unmodified as user_info.  No other operation sends a request,
\* so every request the API client ever received is that one.
C13_OneFixedRequestPerLoad ==
    /\ (LastIs("load_user_info") /\ ~pre.user_info.some) =>
          /\ Len(last.calls) = 1
          /\ last.calls[1] = ExpectedRequest
          /\ DOMAIN last.calls[1].params = {"action", "meta", "uiprop"}
          /\ (last.api.some /\ last.api.v.ok) => user_info = Some(last.api.v.v)
    /\ ~LastIs("load_user_info") => last.calls = <<>>
    /\ \A i \in DOMAIN api_log : api_log[i] = ExpectedRequest

\* a load that sent its request and stored a document that grants a right
C13_Witness ==
    /\ LastIs("load_user_info")
    /\ ~pre.user_info.some
    /\ user_info.some
    /\ GrantedRights(user_info.v) # {}
    /\ api_log = <<ExpectedRequest>>

\* ------------------------------------------------------------------ C14
QueryOps ==
    {"logged_in", "user_name", "user_id", "has_right"} \cup DOMAIN RightOf

\* C14: set_from_login, whatever its document and result, leaves user_info
\* unchanged and sends no request; load_user_info, whatever its result,
\* leaves lgusername, lguserid and is_logged_in unchanged; the queries change
\* no field and send no request.  So has_right after a login answers from
\* the document cached before it.
C14_MutatorsTouchDisjointFields ==
    /\ LastIs("set_from_login") =>
          /\ user_info = pre.user_info
          /\ last.calls = <<>>
          /\ \A x \in RightNames : has_right(Self, x) = has_right(pre, x)
    /\ LastIs("load_user_info") =>
          /\ lgusername = pre.lgusername
          /\ lguserid = pre.lguserid
          /\ is_logged_in = pre.is_logged_in
    /\ last.op \in QueryOps => (Self = pre /\ last.calls = <<>>)

\* a login as a new user applied to a User whose rights are already cached
C14_Witness ==
    /\ LastIs("set_from_login")
    /\ last.ret = Ok(Unit)
    /\ is_logged_in
    /\ lgusername # pre.lgusername
    /\ user_info.some
    /\ has_right(Self, "edit") = Some(TRUE)

\* ------------------------------------------------------------------ C15
\* C15: set_from_login returns the error that names lgusername whenever the
\* result is "Success" and lgusername is missing or not a string (also when
\* lguserid is missing too), the error that names lguserid exactly when the
\* result is "Success", lgusername is a string and lguserid is missing or
\* not an unsigned integer, and Ok(()) in every other case.
C15_ErrorNamesMissingField ==
    LastIs("set_from_login") =>
        last.ret =
            IF ResultIsSuccess(last.arg) /\ ~NameIsString(last.arg)
            THEN Err("No lgusername in login result")
            ELSE IF ResultIsSuccess(last.arg) /\ ~IdIsUnsigned(last.arg)
                 THEN Err("No lguserid in login result")
                 ELSE Ok(Unit)

\* a "Success" document with neither field usable: lgusername is reported
C15_Witness ==
    /\ LastIs("set_from_login")
    /\ ResultIsSuccess(last.arg)
    /\ ~NameIsString(last.arg)
    /\ ~IdIsUnsigned(last.arg)
    /\ last.ret = Err("No lgusername in login result")
====
